---- MODULE Spec2Model ----
(***************************************************************************)
(* Summary plots of cargo-criterion: line_comparison and violin, in the    *)
(* gnuplot backend (src/plot/gnuplot_backend/summary.rs) and the plotters  *)
(* backend (src/plot/plotters_backend/summary.rs).                         *)
(*                                                                         *)
(* Representation of values                                                *)
(*   Option<T>   a sequence of length 0 (None) or 1 (Some(v)).             *)
(*   f64         an integer, or NAN.  Every arithmetic helper treats NAN   *)
(*               the way IEEE 754 does.                                    *)
(*   String      a sequence of one-character strings, so that replacing    *)
(*               the underscores of a text is a computation.  A literal    *)
(*               of a format! call is kept as one token.                   *)
(*   density     normalised densities are counted in twelfths (12 = 1.0).  *)
(*   y position  vertical chart coordinates are counted in 1/240 of a      *)
(*               unit band (240 = 1.0, 120 = 0.5, 108 = 0.45).             *)
(***************************************************************************)
EXTENDS Integers, Sequences, FiniteSets, TLC

VARIABLES
    backend,                    \* "gnuplot" or "plotters": which summary.rs runs
    operation,                  \* "line_comparison" or "violin"
    title,                      \* argument title: &str
    all_benchmarks,             \* argument all_benchmarks / all_curves
    pc,                         \* position in the function body
    fig_title,                  \* Option: the title given to the chart
    max,                        \* local max
    min,                        \* local min (violin)
    unit,                       \* Option: the unit label the formatter returned
    scale_calls,                \* formatter.scale_values calls so far: the magnitudes passed
    function_id_to_benchmarks,  \* the LinkedHashMap, as its entries in insertion order
    iter,                       \* entries of the map / of kdes the for loop has consumed
    i,                          \* gnuplot line_comparison: the colour counter i
    series_data,                \* plotters: Vec<(Option<&String>, Vec<f64>, Vec<f64>)>
    plots,                      \* the series drawn so far
    kdes,                       \* violin: the normalised curves, in reversed input order
    one,                        \* violin: the buffer [1.0] the formatter scales
    tic_labels,                 \* violin: (position, label) pairs of the category axis
    curves,                     \* violin: the regions drawn so far
    artifact                    \* "none", "created" or "drawn": the file at path

vars == <<backend, operation, title, all_benchmarks, pc, fig_title, max, min, unit,
          scale_calls, function_id_to_benchmarks, iter, i, series_data, plots,
          kdes, one, tic_labels, curves, artifact>>

----------------------------------------------------------------------------
(* Bounds of the model *)

MaxLen == 3         \* longest all_benchmarks of the enumerated line_comparison inputs
MaxGroups == 9      \* most function ids of the wide line_comparison inputs
MaxNumber == 2      \* largest numeric input value
MaxTypical == 4     \* largest Typical point estimate
MaxBench == 2       \* longest all_benchmarks of the violin inputs
MaxSupport == 3     \* the support values of a curve are 0, 2, ..., 2 * MaxSupport
MaxDensity == 2     \* largest raw density value of a curve

----------------------------------------------------------------------------
(* Values *)

None == <<>>
Some(v) == <<v>>

\* ::std::f64::NAN
NAN == -1

IsNaN(a) == a = NAN

\* f64::partial_cmp: None when either side is NaN
partial_cmp(a, b) ==
    IF IsNaN(a) \/ IsNaN(b) THEN None
    ELSE IF a < b THEN Some("Less")
    ELSE IF a = b THEN Some("Equal")
    ELSE Some("Greater")

\* Option::unwrap_or
unwrap_or(opt, default) == IF opt = None THEN default ELSE opt[1]

\* f64::max: the other operand when one is NaN
f64_max(a, b) ==
    IF IsNaN(a) THEN b
    ELSE IF IsNaN(b) THEN a
    ELSE IF a > b THEN a ELSE b

\* escape_underscores(string): string.replace("_", "\\_")
RECURSIVE escape_underscores(_)
escape_underscores(string) ==
    IF string = <<>> THEN <<>>
    ELSE (IF string[1] = "_" THEN <<"\\", "_">> ELSE <<string[1]>>)
         \o escape_underscores(Tail(string))

\* format!("{}<literal>", text)
format(text, literal) == text \o <<literal>>

\* ValueFormatter::scale_values picks the unit from the magnitude `typical`
\* alone.  Factor is the multiplier it applies to every value, UnitLabel the
\* label it returns.  A NaN magnitude fails every threshold comparison.
Factor(typical) ==
    IF IsNaN(typical) THEN 1
    ELSE IF typical < 4 THEN 100
    ELSE IF typical < 6 THEN 10
    ELSE 1

UnitLabel(typical) ==
    IF IsNaN(typical) THEN "s"
    ELSE IF typical < 4 THEN "ns"
    ELSE IF typical < 6 THEN "us"
    ELSE "s"

scale_values(typical, values) ==
    [k \in 1..Len(values) |-> IF IsNaN(values[k]) THEN NAN ELSE values[k] * Factor(typical)]

----------------------------------------------------------------------------
(* The colour palette *)

NUM_COLORS == 8

COMPARISON_COLORS ==
    << <<178, 34, 34>>, <<46, 139, 87>>, <<0, 139, 139>>, <<255, 215, 0>>,
       <<0, 0, 139>>, <<220, 20, 60>>, <<139, 0, 139>>, <<0, 255, 127>> >>

\* Mutation of GnuplotColor: the counter is taken after its increment.
GnuplotColorOffByOne(n) == COMPARISON_COLORS[((n + 1) % NUM_COLORS) + 1]
\* COMPARISON_COLORS[i % NUM_COLORS] of the gnuplot backend (n counts from 0)
GnuplotColor(n) == COMPARISON_COLORS[(n % NUM_COLORS) + 1]

\* COMPARISON_COLORS[id % NUM_COLORS] of the plotters backend
PlottersColor(n) == COMPARISON_COLORS[(n % NUM_COLORS) + 1]

----------------------------------------------------------------------------
(* line_comparison: the pure parts *)

\* Mutation of fold_max: the fold keeps the least estimate.
RECURSIVE fold_min(_, _)
fold_min(acc, estimates) ==
    IF estimates = <<>> THEN acc
    ELSE fold_min(IF IsNaN(acc) \/ estimates[1] < acc THEN estimates[1] ELSE acc,
                  Tail(estimates))
\* .map(|(_, data)| data...get(&Statistic::Typical).unwrap().point_estimate)
\*     .fold(NAN, f64::max)
RECURSIVE fold_max(_, _)
fold_max(acc, estimates) ==
    IF estimates = <<>> THEN acc
    ELSE fold_max(f64_max(acc, estimates[1]), Tail(estimates))

TypicalMissing(benchmarks) ==
    \E k \in 1..Len(benchmarks) : benchmarks[k].typical = None

NumberMissing(group) ==
    \E k \in 1..Len(group) : group[k].number = None

PointEstimates(benchmarks) ==
    [k \in 1..Len(benchmarks) |-> benchmarks[k].typical[1]]

\* Mutation of entry_push: an entry of a known function id replaces its group.
entry_pushReplace(map, e) ==
    IF \E k \in 1..Len(map) : map[k].key = e.function_id
    THEN [k \in 1..Len(map) |->
            IF map[k].key = e.function_id
            THEN [key |-> map[k].key, group |-> <<e>>]
            ELSE map[k]]
    ELSE Append(map, [key |-> e.function_id, group |-> <<e>>])
\* function_id_to_benchmarks.entry(&id.function_id).or_insert(Vec::new()).push(..)
entry_push(map, e) ==
    IF \E k \in 1..Len(map) : map[k].key = e.function_id
    THEN [k \in 1..Len(map) |->
            IF map[k].key = e.function_id
            THEN [key |-> map[k].key, group |-> Append(map[k].group, e)]
            ELSE map[k]]
    ELSE Append(map, [key |-> e.function_id, group |-> <<e>>])

\* for (id, bench) in all_benchmarks { ... }
RECURSIVE Grouping(_, _)
Grouping(map, benchmarks) ==
    IF benchmarks = <<>> THEN map
    ELSE Grouping(entry_push(map, benchmarks[1]), Tail(benchmarks))

\* group.into_iter().map(|(id, benchmark)| (x, y)).collect()
Tuples(group) ==
    [k \in 1..Len(group) |-> <<group[k].number[1], group[k].typical[1]>>]

\* |&(ax, _), &(bx, _)| ax.partial_cmp(&bx).unwrap_or(Ordering::Less)
compare(a, b) == unwrap_or(partial_cmp(a[1], b[1]), "Less")

is_less(a, b) == compare(a, b) = "Less"

\* slice::sort_by on a short slice: the stable insertion sort of the standard
\* library, which inserts v[i] into the sorted v[i+1..] for i from the right.
RECURSIVE LessPrefix(_, _)
LessPrefix(s, tmp) ==
    IF s # <<>> /\ is_less(s[1], tmp) THEN 1 + LessPrefix(Tail(s), tmp) ELSE 0

insert_head(v) ==
    IF Len(v) < 2 THEN v
    ELSE LET k == LessPrefix(Tail(v), v[1])
         IN  SubSeq(v, 2, k + 1) \o <<v[1]>> \o SubSeq(v, k + 2, Len(v))

RECURSIVE sort_by(_)
sort_by(v) ==
    IF Len(v) < 2 THEN v
    ELSE insert_head(<<v[1]>> \o sort_by(Tail(v)))

\* tuples.into_iter().unzip()
Xs(tuples) == [k \in 1..Len(tuples) |-> tuples[k][1]]
Ys(tuples) == [k \in 1..Len(tuples) |-> tuples[k][2]]

----------------------------------------------------------------------------
(* Inputs of line_comparison *)

Titles == { <<"a">>, <<"a", "_", "b">> }

FunctionIds == { None, Some(<<"f">>), Some(<<"g", "_", "h">>) }

Numbers == {NAN} \cup (1..MaxNumber)

Typicals == 1..MaxTypical

\* The function id of position k when the function ids are not what varies.
Alternate(k) == IF k % 2 = 1 THEN Some(<<"f">>) ELSE None

\* Function ids vary; number and estimate tell the entries apart.
GroupingInputs ==
    UNION { { [k \in 1..n |-> [function_id |-> f[k], number |-> Some(k),
                               typical |-> Some(k)]] :
              f \in [1..n -> FunctionIds] } :
            n \in 0..MaxLen }

\* Numeric inputs vary over two functions; the estimate tells the entries apart.
SeriesInputs ==
    UNION { { [k \in 1..n |-> [function_id |-> f[k], number |-> Some(x[k]),
                               typical |-> Some(k)]] :
              f \in [1..n -> {None, Some(<<"f">>)}], x \in [1..n -> Numbers] } :
            n \in 0..MaxLen }

\* Estimates vary.
MagnitudeInputs ==
    UNION { { [k \in 1..n |-> [function_id |-> Alternate(k), number |-> Some(k),
                               typical |-> Some(t[k])]] :
              t \in [1..n -> Typicals] } :
            n \in 0..MaxLen }

\* Identifiers without a number and records without a Typical estimate.
PartialInputs ==
    UNION { { [k \in 1..n |-> [function_id |-> Alternate(k), number |-> x[k],
                               typical |-> t[k]]] :
              x \in [1..n -> {None, Some(1)}],
              t \in [1..n -> {None, Some(1)}] } :
            n \in 0..MaxLen }

\* n functions of one benchmark each; function k is named by k letters.
WideInputs ==
    { [k \in 1..n |-> [function_id |-> Some([j \in 1..k |-> "f"]),
                       number |-> Some(1), typical |-> Some(1)]] :
      n \in 1..MaxGroups }

LineInputs ==
    GroupingInputs \cup SeriesInputs \cup MagnitudeInputs \cup PartialInputs \cup WideInputs

InitLine ==
    /\ backend \in {"gnuplot", "plotters"}
    /\ operation = "line_comparison"
    /\ all_benchmarks \in LineInputs
    /\ title \in (IF Len(all_benchmarks) <= 1 THEN Titles ELSE { <<"a", "_", "b">> })
    /\ pc = (IF backend = "gnuplot" THEN "figure" ELSE "max")
    /\ fig_title = None
    /\ max = NAN
    /\ min = NAN
    /\ unit = None
    /\ scale_calls = <<>>
    /\ function_id_to_benchmarks = <<>>
    /\ iter = 0
    /\ i = 0
    /\ series_data = <<>>
    /\ plots = <<>>
    /\ kdes = <<>>
    /\ one = 1
    /\ tic_labels = {}
    /\ curves = <<>>
    /\ artifact = "none"

----------------------------------------------------------------------------
(* line_comparison, gnuplot backend *)

lineUnchanged == <<backend, operation, title, all_benchmarks, min, kdes, one, tic_labels, curves>>

\* Mutation of GnuplotLineFigure: the output is opened with the figure.
GnuplotLineFigureOpensOutput ==
    /\ backend = "gnuplot" /\ operation = "line_comparison" /\ pc = "figure"
    /\ fig_title' = Some(format(escape_underscores(title), ": Comparison"))
    /\ artifact' = "created"
    /\ pc' = "max"
    /\ UNCHANGED <<lineUnchanged, max, unit, scale_calls, function_id_to_benchmarks,
                   iter, i, series_data, plots>>
\* Figure::new() ... .set(Title(..)) ... : the figure is built in memory
GnuplotLineFigure ==
    /\ backend = "gnuplot" /\ operation = "line_comparison" /\ pc = "figure"
    /\ fig_title' = Some(format(escape_underscores(title), ": Comparison"))
    /\ pc' = "max"
    /\ UNCHANGED <<lineUnchanged, max, unit, scale_calls, function_id_to_benchmarks,
                   iter, i, series_data, plots, artifact>>

\* let mut i = 0; let max = all_benchmarks.iter().map(..unwrap()..).fold(NAN, f64::max)
GnuplotLineMax ==
    /\ backend = "gnuplot" /\ operation = "line_comparison" /\ pc = "max"
    /\ i' = 0
    /\ IF TypicalMissing(all_benchmarks)
       THEN pc' = "panicked" /\ max' = max
       ELSE pc' = "unit" /\ max' = fold_max(NAN, PointEstimates(all_benchmarks))
    /\ UNCHANGED <<lineUnchanged, fig_title, unit, scale_calls, function_id_to_benchmarks,
                   iter, series_data, plots, artifact>>

\* let unit = formatter.scale_values(max, &mut dummy); the y axis label
GnuplotLineUnit ==
    /\ backend = "gnuplot" /\ operation = "line_comparison" /\ pc = "unit"
    /\ scale_calls' = Append(scale_calls, max)
    /\ unit' = Some(UnitLabel(max))
    /\ pc' = "group"
    /\ UNCHANGED <<lineUnchanged, fig_title, max, function_id_to_benchmarks,
                   iter, i, series_data, plots, artifact>>

\* the loop that fills function_id_to_benchmarks
GnuplotLineGroup ==
    /\ backend = "gnuplot" /\ operation = "line_comparison" /\ pc = "group"
    /\ function_id_to_benchmarks' = Grouping(<<>>, all_benchmarks)
    /\ iter' = 0
    /\ pc' = "series"
    /\ UNCHANGED <<lineUnchanged, fig_title, max, unit, scale_calls,
                   i, series_data, plots, artifact>>

\* one turn of: for (key, mut group) in function_id_to_benchmarks { ... i += 1; }
GnuplotLineSeries ==
    /\ backend = "gnuplot" /\ operation = "line_comparison" /\ pc = "series"
    /\ iter < Len(function_id_to_benchmarks)
    /\ LET key == function_id_to_benchmarks[iter + 1].key
           group == function_id_to_benchmarks[iter + 1].group
       IN  IF NumberMissing(group)
           THEN /\ pc' = "panicked"
                /\ UNCHANGED <<scale_calls, plots, i, iter>>
           ELSE LET tuples == sort_by(Tuples(group))
                    function_name == IF key = None THEN None
                                     ELSE Some(escape_underscores(key[1]))
                IN  /\ scale_calls' = Append(scale_calls, max)
                    /\ plots' = Append(plots,
                                  [label |-> function_name,
                                   xs |-> Xs(tuples),
                                   ys |-> scale_values(max, Ys(tuples)),
                                   line_color |-> GnuplotColor(i),
                                   point_color |-> GnuplotColor(i)])
                    /\ i' = i + 1
                    /\ iter' = iter + 1
                    /\ pc' = "series"
    /\ UNCHANGED <<lineUnchanged, fig_title, max, unit, function_id_to_benchmarks,
                   series_data, artifact>>

\* debug_script(&path, &f); f.set(Output(path)).draw().unwrap()
GnuplotLineDraw ==
    /\ backend = "gnuplot" /\ operation = "line_comparison" /\ pc = "series"
    /\ iter = Len(function_id_to_benchmarks)
    /\ artifact' = "drawn"
    /\ pc' = "done"
    /\ UNCHANGED <<lineUnchanged, fig_title, max, unit, scale_calls,
                   function_id_to_benchmarks, iter, i, series_data, plots>>

----------------------------------------------------------------------------
(* line_comparison, plotters backend *)

\* line_comparison_series_data: let max = ...fold(NAN, f64::max)
PlottersSeriesMax ==
    /\ backend = "plotters" /\ operation = "line_comparison" /\ pc = "max"
    /\ IF TypicalMissing(all_benchmarks)
       THEN pc' = "panicked" /\ max' = max
       ELSE pc' = "unit" /\ max' = fold_max(NAN, PointEstimates(all_benchmarks))
    /\ UNCHANGED <<lineUnchanged, fig_title, unit, scale_calls, function_id_to_benchmarks,
                   iter, i, series_data, plots, artifact>>

\* let unit = formatter.scale_values(max, &mut dummy); let mut series_data = vec![]
PlottersSeriesUnit ==
    /\ backend = "plotters" /\ operation = "line_comparison" /\ pc = "unit"
    /\ scale_calls' = Append(scale_calls, max)
    /\ unit' = Some(UnitLabel(max))
    /\ series_data' = <<>>
    /\ pc' = "group"
    /\ UNCHANGED <<lineUnchanged, fig_title, max, function_id_to_benchmarks,
                   iter, i, plots, artifact>>

\* the loop that fills function_id_to_benchmarks
PlottersSeriesGroup ==
    /\ backend = "plotters" /\ operation = "line_comparison" /\ pc = "group"
    /\ function_id_to_benchmarks' = Grouping(<<>>, all_benchmarks)
    /\ iter' = 0
    /\ pc' = "series"
    /\ UNCHANGED <<lineUnchanged, fig_title, max, unit, scale_calls,
                   i, series_data, plots, artifact>>

\* one turn of: for (key, mut group) in function_id_to_benchmarks { ... push }
PlottersSeriesBuild ==
    /\ backend = "plotters" /\ operation = "line_comparison" /\ pc = "series"
    /\ iter < Len(function_id_to_benchmarks)
    /\ LET key == function_id_to_benchmarks[iter + 1].key
           group == function_id_to_benchmarks[iter + 1].group
       IN  IF NumberMissing(group)
           THEN /\ pc' = "panicked"
                /\ UNCHANGED <<scale_calls, series_data, iter>>
           ELSE LET tuples == sort_by(Tuples(group))
                IN  /\ scale_calls' = Append(scale_calls, max)
                    /\ series_data' = Append(series_data,
                                        [name |-> key,
                                         xs |-> Xs(tuples),
                                         ys |-> scale_values(max, Ys(tuples))])
                    /\ iter' = iter + 1
                    /\ pc' = "series"
    /\ UNCHANGED <<lineUnchanged, fig_title, max, unit, function_id_to_benchmarks,
                   i, plots, artifact>>

\* line_comparison after line_comparison_series_data returned: the ranges,
\* SVGBackend::new(&path, SIZE) ... .titled(&format!("{}: Comparision", title), ..)
PlottersLineRoot ==
    /\ backend = "plotters" /\ operation = "line_comparison" /\ pc = "series"
    /\ iter = Len(function_id_to_benchmarks)
    /\ artifact' = "created"
    /\ fig_title' = Some(format(title, ": Comparision"))
    /\ pc' = "chart"
    /\ UNCHANGED <<lineUnchanged, max, unit, scale_calls, function_id_to_benchmarks,
                   iter, i, series_data, plots>>

\* draw_line_comparision_figure: ChartBuilder ... configure_mesh() ... draw()
PlottersLineChart ==
    /\ backend = "plotters" /\ operation = "line_comparison" /\ pc = "chart"
    /\ pc' = "draw_series"
    /\ UNCHANGED <<lineUnchanged, fig_title, max, unit, scale_calls,
                   function_id_to_benchmarks, iter, i, series_data, plots, artifact>>

\* one turn of: for (id, (name, xs, ys)) in (0..).zip(data.into_iter()) { ... }
PlottersDrawSeries ==
    /\ backend = "plotters" /\ operation = "line_comparison" /\ pc = "draw_series"
    /\ Len(plots) < Len(series_data)
    /\ LET id == Len(plots)
           data == series_data[id + 1]
       IN  plots' = Append(plots,
                      [label |-> data.name,
                       xs |-> data.xs,
                       ys |-> data.ys,
                       line_color |-> PlottersColor(id),
                       legend_color |-> IF data.name = None THEN None
                                        ELSE Some(PlottersColor(id))])
    /\ UNCHANGED <<lineUnchanged, pc, fig_title, max, unit, scale_calls,
                   function_id_to_benchmarks, iter, i, series_data, artifact>>

\* chart.configure_series_labels() ... draw(); the drawing area is written out
PlottersLineLabels ==
    /\ backend = "plotters" /\ operation = "line_comparison" /\ pc = "draw_series"
    /\ Len(plots) = Len(series_data)
    /\ artifact' = "drawn"
    /\ pc' = "done"
    /\ UNCHANGED <<lineUnchanged, fig_title, max, unit, scale_calls,
                   function_id_to_benchmarks, iter, i, series_data, plots>>

NextLine ==
    \/ GnuplotLineFigure
    \/ GnuplotLineMax
    \/ GnuplotLineUnit
    \/ GnuplotLineGroup
    \/ GnuplotLineSeries
    \/ GnuplotLineDraw
    \/ PlottersSeriesMax
    \/ PlottersSeriesUnit
    \/ PlottersSeriesGroup
    \/ PlottersSeriesBuild
    \/ PlottersLineRoot
    \/ PlottersLineChart
    \/ PlottersDrawSeries
    \/ PlottersLineLabels

SpecLine == InitLine /\ [][NextLine]_vars

----------------------------------------------------------------------------
(* Properties of line_comparison *)

IsLine == operation = "line_comparison"

\* The grouping loop has run.
Grouped == IsLine /\ pc \in {"series", "chart", "draw_series", "done"}

\* The series the function has built so far, in emission order.
Emitted == IF backend = "gnuplot" THEN plots ELSE series_data

FunctionIdOf(k) == all_benchmarks[k].function_id

\* The first position of a function id in the input.
FirstSeen(fid) ==
    CHOOSE k \in 1..Len(all_benchmarks) :
        /\ FunctionIdOf(k) = fid
        /\ \A j \in 1..(k - 1) : FunctionIdOf(j) # fid

\* The input pairs of one function id, in input order.
PairsOf(fid) ==
    LET Has(e) == e.function_id = fid
    IN  SelectSeq(all_benchmarks, Has)

RECURSIVE SumLen(_)
SumLen(map) == IF map = <<>> THEN 0 ELSE Len(map[1].group) + SumLen(Tail(map))

\* C1: in both backends the groups come in the order in which each function
\* id first appears in the input, each group holds exactly the input pairs of
\* its function id in input order, every input pair is in exactly one group,
\* and the series are emitted in the order of the groups.
C1_GroupingFirstSeenOrder ==
    Grouped =>
        LET map == function_id_to_benchmarks
        IN  /\ { map[k].key : k \in 1..Len(map) }
                 = { FunctionIdOf(k) : k \in 1..Len(all_benchmarks) }
            /\ \A a, b \in 1..Len(map) :
                 a < b => FirstSeen(map[a].key) < FirstSeen(map[b].key)
            /\ \A k \in 1..Len(map) : map[k].group = PairsOf(map[k].key)
            /\ SumLen(map) = Len(all_benchmarks)
            /\ Len(Emitted) <= Len(map)
            /\ \A k \in 1..Len(Emitted) :
                 /\ Len(Emitted[k].xs) = Len(map[k].group)
                 /\ backend = "plotters" => Emitted[k].name = map[k].key
                 /\ backend = "gnuplot" =>
                      Emitted[k].label = (IF map[k].key = None THEN None
                                          ELSE Some(escape_underscores(map[k].key[1])))
            /\ \A k \in 1..Len(plots) :
                 backend = "plotters" => plots[k].label = map[k].key
            /\ pc = "done" => Len(plots) = Len(map)

\* A finished call whose first function id comes back after another one.
C1_Witness ==
    /\ IsLine /\ pc = "done"
    /\ Len(all_benchmarks) = 3
    /\ FunctionIdOf(1) = FunctionIdOf(3)
    /\ FunctionIdOf(1) # FunctionIdOf(2)
    /\ Len(function_id_to_benchmarks) = 2
    /\ Len(function_id_to_benchmarks[1].group) = 2

\* The order of the Series data model: ascending, NaN as the least value.
Leq(a, b) == IsNaN(a) \/ (~IsNaN(b) /\ a <= b)

Injections(n) == { p \in [1..n -> 1..n] : \A a, b \in 1..n : p[a] = p[b] => a = b }

\* Series k is the stable ascending sort of group k, the ys scaled by the
\* factor of the chart.
StableSorted(k) ==
    LET group == function_id_to_benchmarks[k].group
        xs == Emitted[k].xs
        ys == Emitted[k].ys
        n == Len(group)
    IN  /\ Len(xs) = n /\ Len(ys) = n
        /\ \E p \in Injections(n) :
             /\ \A j \in 1..n :
                  /\ xs[j] = group[p[j]].number[1]
                  /\ ys[j] = group[p[j]].typical[1] * Factor(max)
             /\ \A a, b \in 1..n :
                  a < b => /\ Leq(xs[a], xs[b])
                           /\ (xs[a] = xs[b] => p[a] < p[b])

\* C2: every emitted series is its group's (numeric input, Typical estimate)
\* pairs sorted ascending by x with a stable sort: the xs are non-decreasing
\* whatever the input order, each y stays with its x, and pairs of equal x
\* keep their encounter order.
C2_SeriesSortedStable ==
    IsLine => \A k \in 1..Len(Emitted) : StableSorted(k)

\* The same, for the groups none of whose numeric inputs is NaN.
SeriesSortedComparable ==
    IsLine =>
        \A k \in 1..Len(Emitted) :
            (\A j \in 1..Len(Emitted[k].xs) : ~IsNaN(Emitted[k].xs[j])) => StableSorted(k)

\* The largest Typical point estimate of the input.
TrueMax ==
    CHOOSE m \in { all_benchmarks[k].typical[1] : k \in 1..Len(all_benchmarks) } :
        \A k \in 1..Len(all_benchmarks) : all_benchmarks[k].typical[1] <= m

\* C3: within one line_comparison call the formatter always gets the maximum
\* Typical point estimate of all input records, for the unit label and for
\* every group's ys, so every series is scaled by the same multiplier.
C3_OneMagnitudePerChart ==
    (IsLine /\ Len(all_benchmarks) > 0 /\ ~TypicalMissing(all_benchmarks)) =>
        /\ \A c \in 1..Len(scale_calls) : scale_calls[c] = TrueMax
        /\ unit # None => unit = Some(UnitLabel(TrueMax))
        /\ Len(scale_calls) = (IF unit = None THEN 0 ELSE 1) + Len(Emitted)
        /\ \A k \in 1..Len(Emitted) :
             LET raw == Ys(sort_by(Tuples(function_id_to_benchmarks[k].group)))
             IN  Emitted[k].ys = [j \in 1..Len(raw) |-> raw[j] * Factor(TrueMax)]
        /\ pc = "done" => Len(scale_calls) = 1 + Len(function_id_to_benchmarks)

\* A finished chart of two series where the estimates of the first series
\* alone would have picked another multiplier.
C3_Witness ==
    /\ IsLine /\ pc = "done"
    /\ Len(plots) = 2
    /\ Len(scale_calls) = 3
    /\ \A j \in 1..Len(function_id_to_benchmarks[1].group) :
         Factor(function_id_to_benchmarks[1].group[j].typical[1]) # Factor(max)

LineBadInput ==
    \E k \in 1..Len(all_benchmarks) :
        all_benchmarks[k].number = None \/ all_benchmarks[k].typical = None

\* C6: when an identifier has no numeric input value or a record has no
\* Typical estimate, line_comparison never completes and stops by panicking,
\* and the artifact at path is neither created nor drawn, in both backends
\* and wherever the offending entry sits.
C6_FailsBeforeArtifact ==
    (IsLine /\ LineBadInput) =>
        /\ artifact = "none"
        /\ pc # "done"
        /\ (~ENABLED NextLine) => pc = "panicked"

\* A call that panicked on a missing number in its second group, after the
\* first group was built.
C6_Witness ==
    /\ IsLine /\ pc = "panicked"
    /\ ~TypicalMissing(all_benchmarks)
    /\ iter = 1
    /\ all_benchmarks[Len(all_benchmarks)].number = None
    /\ artifact = "none"

\* C7: the chart is titled "<title>: Comparison" (line chart) or
\* "<title>: Violin plot" (violin chart), the underscores of the caller's
\* title escaped, in both backends.
C7_TitleEscaped ==
    fig_title # None =>
        fig_title = Some(format(escape_underscores(title),
                                IF IsLine THEN ": Comparison" ELSE ": Violin plot"))

\* C8: the k-th emitted group (from 0) is drawn with palette entry k mod 8,
\* its line and its point markers or legend swatch alike; the group at
\* index 8 has the colour of the group at index 0.
C8_ColourCycle ==
    IsLine =>
        /\ \A k \in 1..Len(plots) :
             LET colour == COMPARISON_COLORS[((k - 1) % 8) + 1]
             IN  /\ plots[k].line_color = colour
                 /\ backend = "gnuplot" => plots[k].point_color = colour
                 /\ (backend = "plotters" /\ plots[k].label # None)
                      => plots[k].legend_color = Some(colour)
                 /\ (backend = "plotters" /\ plots[k].label = None)
                      => plots[k].legend_color = None
        /\ Len(plots) >= 9 => plots[9].line_color = plots[1].line_color
        /\ \A a, b \in 1..Len(plots) :
             (a < b /\ b - a < 8) => plots[a].line_color # plots[b].line_color

\* A finished chart of nine series.
C8_Witness ==
    /\ IsLine /\ pc = "done"
    /\ Len(plots) = 9
    /\ Len(function_id_to_benchmarks) = 9

----------------------------------------------------------------------------
(* violin: the pure parts *)

\* The sweep resolution.  The program sweeps 500 points; the model sweeps 2.
KDE_POINTS == 2

\* kde::sweep(Sample::new(&avg_values), KDE_POINTS, None) is an opaque
\* estimator.  A sample is represented by the curve the estimator returns
\* for it: KDE_POINTS support values x and their raw densities y.
sweep(avg_values) == [x |-> avg_values.x, y |-> avg_values.y]

\* Mutation of rev: the order is kept.
identity(s) == s
\* Iterator::rev
rev(s) == [k \in 1..Len(s) |-> s[Len(s) + 1 - k]]

\* Sample::new(&y).max()
RECURSIVE sample_max(_)
sample_max(y) ==
    IF Len(y) = 1 THEN y[1]
    ELSE LET m == sample_max(Tail(y)) IN IF y[1] > m THEN y[1] ELSE m

\* for y in y.iter_mut() { *y /= y_max; }     (in twelfths)
normalize(y) ==
    LET y_max == sample_max(y)
    IN  [j \in 1..Len(y) |-> (y[j] * 12) \div y_max]

\* kdes.iter().flat_map(|(x, _)| x.iter())
RECURSIVE flat_map(_)
flat_map(ks) == IF ks = <<>> THEN <<>> ELSE ks[1].x \o flat_map(Tail(ks))

\* .filter(|&&x| x > 0.)
positive(x) == x > 0
filter(xs) == SelectSeq(xs, positive)

\* Mutation of scan: the second test compares with min.
RECURSIVE scanMaxAboveMin(_, _, _)
scanMaxAboveMin(lo, hi, xs) ==
    IF xs = <<>> THEN <<lo, hi>>
    ELSE IF xs[1] < lo THEN scanMaxAboveMin(xs[1], hi, Tail(xs))
    ELSE IF xs[1] > lo THEN scanMaxAboveMin(lo, xs[1], Tail(xs))
    ELSE scanMaxAboveMin(lo, hi, Tail(xs))
\* for &e in xs { if e < min { min = e; } else if e > max { max = e; } }
RECURSIVE scan(_, _, _)
scan(lo, hi, xs) ==
    IF xs = <<>> THEN <<lo, hi>>
    ELSE IF xs[1] < lo THEN scan(xs[1], hi, Tail(xs))
    ELSE IF xs[1] > hi THEN scan(lo, xs[1], Tail(xs))
    ELSE scan(lo, hi, Tail(xs))

\* gnuplot: let i = i as f64 + 0.5; y1 = i + y * 0.45; y2 = i - y * 0.45
\* (n is the index from 0, y a density in twelfths, the result in 1/240)
GnuplotCentre(n) == 240 * n + 120
GnuplotY1(n, y) == GnuplotCentre(n) + 9 * y
\* Mutation of GnuplotY2: the lower edge repeats the upper edge.
GnuplotY2Above(n, y) == GnuplotCentre(n) + 9 * y
GnuplotY2(n, y) == GnuplotCentre(n) - 9 * y

\* plotters: let base = i as f64; (x, base + y / 2.0); (x, base - y / 2.0)
PlottersBase(n) == 240 * n
PlottersUpper(n, y) == PlottersBase(n) + 10 * y
PlottersLower(n, y) == PlottersBase(n) - 10 * y

\* v.round() as usize, v in 1/240: round half away from zero, then the
\* saturating cast
RoundAsUsize(v) ==
    IF v < 0 THEN 0 ELSE (v + 120) \div 240

----------------------------------------------------------------------------
(* Inputs of violin *)

Supports == { 2 * k : k \in 0..MaxSupport }

Densities == { y \in [1..KDE_POINTS -> 0..MaxDensity] : \E j \in 1..KDE_POINTS : y[j] > 0 }

\* The title of benchmark k: "t", "t_", "t__", ...
TitleOf(k) == [j \in 1..k |-> IF j = 1 THEN "t" ELSE "_"]

\* Support values vary; the curve is flat.
SupportInputs ==
    UNION { { [k \in 1..n |-> [title |-> TitleOf(k),
                               avg_values |-> [x |-> x[k],
                                               y |-> [j \in 1..KDE_POINTS |-> 1]]]] :
              x \in [1..n -> [1..KDE_POINTS -> Supports]] } :
            n \in 0..MaxBench }

\* Densities vary; the support values are 2, 4, ...
DensityInputs ==
    UNION { { [k \in 1..n |-> [title |-> TitleOf(k),
                               avg_values |-> [x |-> [j \in 1..KDE_POINTS |-> 2 * j],
                                               y |-> y[k]]]] :
              y \in [1..n -> Densities] } :
            n \in 0..MaxBench }

ViolinInputs == SupportInputs \cup DensityInputs

InitViolin ==
    /\ backend \in {"gnuplot", "plotters"}
    /\ operation = "violin"
    /\ all_benchmarks \in ViolinInputs
    /\ title \in (IF Len(all_benchmarks) <= 1 THEN Titles ELSE { <<"a", "_", "b">> })
    /\ pc = "kdes"
    /\ fig_title = None
    /\ max = NAN
    /\ min = NAN
    /\ unit = None
    /\ scale_calls = <<>>
    /\ function_id_to_benchmarks = <<>>
    /\ iter = 0
    /\ i = 0
    /\ series_data = <<>>
    /\ plots = <<>>
    /\ kdes = <<>>
    /\ one = 1
    /\ tic_labels = {}
    /\ curves = <<>>
    /\ artifact = "none"

----------------------------------------------------------------------------
(* violin, gnuplot backend *)

violinUnchanged == <<backend, operation, title, all_benchmarks,
                     function_id_to_benchmarks, i, series_data, plots>>

\* let kdes = all_benchmarks.iter().rev().map(..sweep..normalise..).collect()
GnuplotViolinKdes ==
    /\ backend = "gnuplot" /\ operation = "violin" /\ pc = "kdes"
    /\ kdes' = LET reversed == rev(all_benchmarks)
               IN  [k \in 1..Len(reversed) |->
                      LET curve == sweep(reversed[k].avg_values)
                      IN  [x |-> curve.x, y |-> normalize(curve.y)]]
    /\ pc' = "range"
    /\ UNCHANGED <<violinUnchanged, fig_title, max, min, unit, scale_calls, iter,
                   one, tic_labels, curves, artifact>>

\* let mut xs = ...filter(..); let (mut min, mut max) = { xs.next().unwrap() .. };
\* for &e in xs { .. }
GnuplotViolinRange ==
    /\ backend = "gnuplot" /\ operation = "violin" /\ pc = "range"
    /\ LET xs == filter(flat_map(kdes))
       IN  IF xs = <<>>
           THEN pc' = "panicked" /\ UNCHANGED <<min, max>>
           ELSE LET first == xs[1]
                    range == scan(first, first, Tail(xs))
                IN  min' = range[1] /\ max' = range[2] /\ pc' = "unit"
    /\ UNCHANGED <<violinUnchanged, fig_title, unit, scale_calls, iter, kdes,
                   one, tic_labels, curves, artifact>>

\* let unit = formatter.scale_values((min + max) / 2.0, &mut one)
GnuplotViolinUnit ==
    /\ backend = "gnuplot" /\ operation = "violin" /\ pc = "unit"
    /\ LET typical == (min + max) \div 2
       IN  /\ scale_calls' = Append(scale_calls, typical)
           /\ unit' = Some(UnitLabel(typical))
           /\ one' = scale_values(typical, <<one>>)[1]
    /\ pc' = "figure"
    /\ UNCHANGED <<violinUnchanged, fig_title, max, min, iter, kdes,
                   tic_labels, curves, artifact>>

\* Figure::new() ... .set(Title(..)) ... TicLabels { positions: tics(), labels: .. }
GnuplotViolinFigure ==
    /\ backend = "gnuplot" /\ operation = "violin" /\ pc = "figure"
    /\ fig_title' = Some(format(escape_underscores(title), ": Violin plot"))
    /\ tic_labels' = LET labels == rev(all_benchmarks)
                     IN  { <<GnuplotCentre(k - 1), escape_underscores(labels[k].title)>> :
                           k \in 1..Len(labels) }
    /\ iter' = 0
    /\ pc' = "curve"
    /\ UNCHANGED <<violinUnchanged, max, min, unit, scale_calls, kdes, one,
                   curves, artifact>>

\* one turn of: for (i, &(ref x, ref y)) in kdes.iter().enumerate() { f.plot(..) }
GnuplotViolinCurve ==
    /\ backend = "gnuplot" /\ operation = "violin" /\ pc = "curve"
    /\ iter < Len(kdes)
    /\ LET x == kdes[iter + 1].x
           y == kdes[iter + 1].y
       IN  curves' = Append(curves,
                       [x |-> [j \in 1..Len(x) |-> x[j] * one],
                        y1 |-> [j \in 1..Len(y) |-> GnuplotY1(iter, y[j])],
                        y2 |-> [j \in 1..Len(y) |-> GnuplotY2(iter, y[j])],
                        label |-> IF iter = 0 THEN Some("PDF") ELSE None])
    /\ iter' = iter + 1
    /\ UNCHANGED <<violinUnchanged, pc, fig_title, max, min, unit, scale_calls, kdes,
                   one, tic_labels, artifact>>

\* debug_script(&path, &f); f.set(Output(path)).draw().unwrap()
GnuplotViolinDraw ==
    /\ backend = "gnuplot" /\ operation = "violin" /\ pc = "curve"
    /\ iter = Len(kdes)
    /\ artifact' = "drawn"
    /\ pc' = "done"
    /\ UNCHANGED <<violinUnchanged, fig_title, max, min, unit, scale_calls, iter, kdes,
                   one, tic_labels, curves>>

----------------------------------------------------------------------------
(* violin, plotters backend *)

\* let mut kdes = all_benchmarks.iter().rev().map(.. (id.as_title(), x, y)).collect()
PlottersViolinKdes ==
    /\ backend = "plotters" /\ operation = "violin" /\ pc = "kdes"
    /\ kdes' = LET reversed == rev(all_benchmarks)
               IN  [k \in 1..Len(reversed) |->
                      LET curve == sweep(reversed[k].avg_values)
                      IN  [title |-> reversed[k].title,
                           x |-> curve.x, y |-> normalize(curve.y)]]
    /\ pc' = "range"
    /\ UNCHANGED <<violinUnchanged, fig_title, max, min, unit, scale_calls, iter,
                   one, tic_labels, curves, artifact>>

\* let mut xs = ...filter(..); let (mut min, mut max) = { xs.next().unwrap() .. };
\* for &e in xs { .. }
PlottersViolinRange ==
    /\ backend = "plotters" /\ operation = "violin" /\ pc = "range"
    /\ LET xs == filter(flat_map(kdes))
       IN  IF xs = <<>>
           THEN pc' = "panicked" /\ UNCHANGED <<min, max>>
           ELSE LET first == xs[1]
                    range == scan(first, first, Tail(xs))
                IN  min' = range[1] /\ max' = range[2] /\ pc' = "unit"
    /\ UNCHANGED <<violinUnchanged, fig_title, unit, scale_calls, iter, kdes,
                   one, tic_labels, curves, artifact>>

\* let unit = formatter.scale_values(max, &mut dummy);
\* kdes.iter_mut().for_each(|(_, xs, _)| { formatter.scale_values(max, xs); })
PlottersViolinUnit ==
    /\ backend = "plotters" /\ operation = "violin" /\ pc = "unit"
    /\ scale_calls' = scale_calls \o <<max>> \o [k \in 1..Len(kdes) |-> max]
    /\ unit' = Some(UnitLabel(max))
    /\ one' = scale_values(max, <<one>>)[1]
    /\ kdes' = [k \in 1..Len(kdes) |->
                  [title |-> kdes[k].title,
                   x |-> scale_values(max, kdes[k].x),
                   y |-> kdes[k].y]]
    /\ pc' = "root"
    /\ UNCHANGED <<violinUnchanged, fig_title, max, min, iter,
                   tic_labels, curves, artifact>>

\* the ranges, SVGBackend::new(&path, size) ... .titled(&format!("{}: Violin plot", title), ..)
PlottersViolinRoot ==
    /\ backend = "plotters" /\ operation = "violin" /\ pc = "root"
    /\ artifact' = "created"
    /\ fig_title' = Some(format(title, ": Violin plot"))
    /\ pc' = "chart"
    /\ UNCHANGED <<violinUnchanged, max, min, unit, scale_calls, iter, kdes,
                   one, tic_labels, curves>>

\* draw_violin_figure: ChartBuilder ... build_ranged(x_range, -0.5..n - 0.5) ...
\* .y_label_formatter(&|v| data[v.round() as usize].0.to_string()).
\* The labelled positions are the library's choice; the model labels every
\* multiple of 0.5 in the range.
PlottersViolinChart ==
    /\ backend = "plotters" /\ operation = "violin" /\ pc = "chart"
    /\ tic_labels' = { <<120 * m, kdes[RoundAsUsize(120 * m) + 1].title>> :
                       m \in (-1)..(2 * Len(all_benchmarks) - 2) }
    /\ iter' = 0
    /\ pc' = "curve"
    /\ UNCHANGED <<violinUnchanged, fig_title, max, min, unit, scale_calls, kdes,
                   one, curves, artifact>>

\* one turn of: for (i, (_, x, y)) in data.into_iter().enumerate() { two AreaSeries }
PlottersViolinCurve ==
    /\ backend = "plotters" /\ operation = "violin" /\ pc = "curve"
    /\ iter < Len(kdes)
    /\ LET x == kdes[iter + 1].x
           y == kdes[iter + 1].y
       IN  curves' = Append(curves,
                       [x |-> x,
                        y1 |-> [j \in 1..Len(y) |-> PlottersUpper(iter, y[j])],
                        y2 |-> [j \in 1..Len(y) |-> PlottersLower(iter, y[j])],
                        baseline |-> PlottersBase(iter)])
    /\ iter' = iter + 1
    /\ UNCHANGED <<violinUnchanged, pc, fig_title, max, min, unit, scale_calls, kdes,
                   one, tic_labels, artifact>>

\* draw_violin_figure returns; the drawing area is written out
PlottersViolinDone ==
    /\ backend = "plotters" /\ operation = "violin" /\ pc = "curve"
    /\ iter = Len(kdes)
    /\ artifact' = "drawn"
    /\ pc' = "done"
    /\ UNCHANGED <<violinUnchanged, fig_title, max, min, unit, scale_calls, iter, kdes,
                   one, tic_labels, curves>>

NextViolin ==
    \/ GnuplotViolinKdes
    \/ GnuplotViolinRange
    \/ GnuplotViolinUnit
    \/ GnuplotViolinFigure
    \/ GnuplotViolinCurve
    \/ GnuplotViolinDraw
    \/ PlottersViolinKdes
    \/ PlottersViolinRange
    \/ PlottersViolinUnit
    \/ PlottersViolinRoot
    \/ PlottersViolinChart
    \/ PlottersViolinCurve
    \/ PlottersViolinDone

SpecViolin == InitViolin /\ [][NextViolin]_vars

----------------------------------------------------------------------------
(* Properties of violin *)

IsViolin == operation = "violin"

NumBench == Len(all_benchmarks)

\* The input benchmark whose curve belongs at band index n (from 0).
BenchOfBand(n) == all_benchmarks[NumBench - n]

\* The positive support values of all input curves.
PositiveSupports ==
    { all_benchmarks[k].avg_values.x[j] : k \in 1..NumBench, j \in 1..KDE_POINTS }
        \cap { v \in Supports : v > 0 }

TrueLow == CHOOSE v \in PositiveSupports : \A w \in PositiveSupports : v <= w

TrueHigh == CHOOSE v \in PositiveSupports : \A w \in PositiveSupports : w <= v

\* The range scan has run and found a first value.
Ranged == IsViolin /\ pc \in {"unit", "figure", "root", "chart", "curve", "done"}

\* C4: in violin, in both backends, the magnitude passed to the formatter,
\* for the unit label and for the multiplier of every curve's support
\* values, is the midpoint (min + max) / 2 of the range of the positive
\* support values, not the maximum.
C4_MidpointMagnitude ==
    (IsViolin /\ PositiveSupports # {}) =>
        LET midpoint == (TrueLow + TrueHigh) \div 2
        IN  /\ \A c \in 1..Len(scale_calls) : scale_calls[c] = midpoint
            /\ unit # None => unit = Some(UnitLabel(midpoint))
            /\ \A k \in 1..Len(curves) :
                 curves[k].x = [j \in 1..KDE_POINTS |->
                                  BenchOfBand(k - 1).avg_values.x[j] * Factor(midpoint)]

\* The density of point j of the curve at band index n, in twelfths.
DensityOfBand(n, j) ==
    LET y == BenchOfBand(n).avg_values.y
        peak == CHOOSE v \in { y[a] : a \in 1..Len(y) } : \A a \in 1..Len(y) : y[a] <= v
    IN  (12 * y[j]) \div peak

\* C5: in both backends the curve at index n (from 0, reversed input order)
\* is drawn symmetric about y = n + 0.5, its upper edge at
\* n + 0.5 + 0.45 * density and its lower edge at n + 0.5 - 0.45 * density, so
\* its half-width is at most 0.45 and it stays in the unit band [n, n + 1].
C5_BandLayoutBothBackends ==
    IsViolin =>
        \A k \in 1..Len(curves) : \A j \in 1..KDE_POINTS :
            LET n == k - 1
                centre == 240 * n + 120
                d == DensityOfBand(n, j)
            IN  /\ curves[k].y1[j] = centre + (108 * d) \div 12
                /\ curves[k].y2[j] = centre - (108 * d) \div 12
                /\ curves[k].y1[j] - centre <= 108
                /\ 240 * n <= curves[k].y2[j]
                /\ curves[k].y1[j] <= 240 * (n + 1)

\* C5 as amended: the gnuplot backend draws the curve at index n symmetric
\* about y = n + 0.5 with the edges n + 0.5 +- 0.45 * density, inside the band
\* [n, n + 1]; the plotters backend draws it symmetric about y = n with the
\* edges n +- density / 2, inside the band [n - 0.5, n + 0.5].  In both, the
\* density is between 0 and 1 and no violin leaves its own unit band.
C5_BandLayout ==
    IsViolin =>
        \A k \in 1..Len(curves) : \A j \in 1..KDE_POINTS :
            LET n == k - 1
                centre == IF backend = "gnuplot" THEN 240 * n + 120 ELSE 240 * n
                reach == IF backend = "gnuplot" THEN 108 ELSE 120
                d == DensityOfBand(n, j)
            IN  /\ 0 <= d /\ d <= 12
                /\ curves[k].y1[j] = centre + (reach * d) \div 12
                /\ curves[k].y2[j] = centre - (reach * d) \div 12
                /\ curves[k].y1[j] - centre <= reach
                /\ centre - 120 <= curves[k].y2[j]
                /\ curves[k].y1[j] <= centre + 120

\* A finished chart whose second curve has a point of half the peak density.
C5_Witness ==
    /\ IsViolin /\ pc = "done"
    /\ Len(curves) = 2
    /\ \E j \in 1..KDE_POINTS : DensityOfBand(1, j) = 6
    /\ \E j \in 1..KDE_POINTS : curves[2].y1[j] # curves[2].y2[j]

\* C9: after the scan, min and max are the least and the greatest of the
\* strictly positive support values of all curves, whatever their order;
\* without any positive support value (an empty benchmark list included)
\* the call panics and produces no range.
C9_RangeOfPositiveSupports ==
    IsViolin =>
        /\ Ranged => (PositiveSupports # {} /\ min = TrueLow /\ max = TrueHigh)
        /\ PositiveSupports = {} =>
             /\ pc \in {"kdes", "range", "panicked"}
             /\ min = NAN /\ max = NAN /\ unit = None /\ artifact = "none"
             /\ (~ENABLED NextViolin) => pc = "panicked"
        /\ pc = "panicked" => PositiveSupports = {}

\* A finished chart whose supports hold a zero and, after the greatest and
\* the least value, one in between.
C9_Witness ==
    /\ IsViolin /\ pc = "done"
    /\ NumBench = 2
    /\ LET first == all_benchmarks[2].avg_values.x
           second == all_benchmarks[1].avg_values.x
       IN  /\ first[1] = 0
           /\ first[2] > second[2]
           /\ second[1] > 0
           /\ second[1] < second[2]
    /\ min < max

\* The label of the tick at position v (in 1/240), for the ticks there are.
LabelsAt(v) == { t[2] : t \in { u \in tic_labels : u[1] = v } }

\* C10: for n benchmarks the curve at band index b is computed from the
\* sample of input benchmark n-1-b, and the tick label of band b is the
\* title of that benchmark, in both backends.
C10_CurvesAndLabelsReversed ==
    IsViolin =>
        /\ \A k \in 1..Len(kdes) :
             /\ kdes[k].y = [j \in 1..KDE_POINTS |-> DensityOfBand(k - 1, j)]
             /\ kdes[k].x = [j \in 1..KDE_POINTS |->
                               BenchOfBand(k - 1).avg_values.x[j]
                                 * (IF backend = "plotters" THEN one ELSE 1)]
        /\ \A k \in 1..Len(curves) :
             /\ curves[k].x = [j \in 1..KDE_POINTS |->
                                 BenchOfBand(k - 1).avg_values.x[j] * one]
             /\ \A j \in 1..KDE_POINTS :
                  curves[k].y1[j] - curves[k].y2[j]
                    = (IF backend = "gnuplot" THEN 18 ELSE 20) * DensityOfBand(k - 1, j)
        /\ pc \in {"curve", "done"} =>
             /\ Len(kdes) = NumBench
             /\ \A b \in 0..(NumBench - 1) :
                  IF backend = "gnuplot"
                  THEN LabelsAt(240 * b + 120)
                         = { escape_underscores(BenchOfBand(b).title) }
                  ELSE LabelsAt(240 * b) = { BenchOfBand(b).title }
             /\ \A t \in tic_labels :
                  \E b \in 0..(NumBench - 1) :
                      IF backend = "gnuplot"
                      THEN /\ t[1] = 240 * b + 120
                           /\ t[2] = escape_underscores(BenchOfBand(b).title)
                      ELSE /\ 240 * b - 120 <= t[1] /\ t[1] < 240 * b + 120
                           /\ t[2] = BenchOfBand(b).title
        /\ pc = "done" => Len(curves) = NumBench

\* A finished chart of two benchmarks that differ in title and in curve.
C10_Witness ==
    /\ IsViolin /\ pc = "done"
    /\ NumBench = 2
    /\ all_benchmarks[1].title # all_benchmarks[2].title
    /\ all_benchmarks[1].avg_values.y # all_benchmarks[2].avg_values.y
    /\ normalize(all_benchmarks[1].avg_values.y) # normalize(all_benchmarks[2].avg_values.y)
    /\ Len(curves) = 2

----------------------------------------------------------------------------
(* Both operations *)

Init == InitLine \/ InitViolin

Next == NextLine \/ NextViolin

Spec == Init /\ [][Next]_vars

====
